---- MODULE Spec2Model ----
(***************************************************************************)
(* Model of alt_cache_balancer_t (src/buffer_cache/alt/cache_balancer.cc): *)
(* the timer-driven trigger policy (on_ring), the single-flight rebalance  *)
(* pass (coro_pool_callback: snapshot, size calculation, distribution of   *)
(* the rounding error, apply on every thread, read-ahead latch) and the    *)
(* registration of evicters (add_evicter / remove_evicter).                *)
(***************************************************************************)
EXTENDS Integers, Sequences, FiniteSets, TLC

(***************************************************************************)
(* Program constants (cache_balancer.cc:7-14).  Times are microseconds, as *)
(* returned by current_microtime().                                        *)
(***************************************************************************)
rebalance_check_interval_ms == 20
rebalance_access_count_threshold == 100
rebalance_timeout_ms == 500
read_ahead_ratio_numerator == 9
read_ahead_ratio_denominator == 10

(***************************************************************************)
(* IEEE-754 binary64 arithmetic on the operands the size calculation uses: *)
(* a quotient of two integers, its product with an integer, and the        *)
(* truncating conversion to int64_t.  A double is [m, e]: m is the 53-bit  *)
(* significand, most significant bit first, and the value is m * 2^e.      *)
(* Zero is the record with the empty significand.                          *)
(***************************************************************************)
DoubleMantissaBits == 53

DoubleZero == [m |-> << >>, e |-> 0]

RECURSIVE Pow2(_)
Pow2(k) == IF k = 0 THEN 1 ELSE 2 * Pow2(k - 1)

\* The number the first n bits of a bit sequence denote (n <= 30).
RECURSIVE BitsToNat(_, _)
BitsToNat(bits, n) ==
    IF n = 0 THEN 0 ELSE 2 * BitsToNat(bits, n - 1) + bits[n]

RECURSIVE NatToBits(_)
NatToBits(n) ==
    IF n = 0 THEN << >> ELSE Append(NatToBits(n \div 2), n % 2)

\* Long arithmetic works on limbs of 9 bits, so that every intermediate
\* product stays below 2^31; a limb sequence is most significant limb first.
LimbBitWeights == << 256, 128, 64, 32, 16, 8, 4, 2, 1 >>

LimbsToBits(limbs) ==
    [i \in 1..(9 * Len(limbs)) |->
        (limbs[((i - 1) \div 9) + 1] \div LimbBitWeights[((i - 1) % 9) + 1]) % 2]

\* The limbs of a bit sequence whose length is a multiple of 9.
BitsToLimbs(bits) ==
    [j \in 1..(Len(bits) \div 9) |->
        256 * bits[9 * j - 8] + 128 * bits[9 * j - 7] + 64 * bits[9 * j - 6]
        + 32 * bits[9 * j - 5] + 16 * bits[9 * j - 4] + 8 * bits[9 * j - 3]
        + 4 * bits[9 * j - 2] + 2 * bits[9 * j - 1] + bits[9 * j]]

\* The number of leading zeros of a bit sequence, counted from position i.
RECURSIVE LeadingZeros(_, _)
LeadingZeros(bits, i) ==
    IF i > Len(bits) \/ bits[i] = 1 THEN 0 ELSE 1 + LeadingZeros(bits, i + 1)

StripLeadingZeros(bits) == SubSeq(bits, LeadingZeros(bits, 1) + 1, Len(bits))

\* The number of ones that end the first n bits of a bit sequence.
RECURSIVE TrailingOnes(_, _)
TrailingOnes(bits, n) ==
    IF n = 0 \/ bits[n] = 0 THEN 0 ELSE 1 + TrailingOnes(bits, n - 1)

\* bits + 1; a carry out of the top bit lengthens the sequence by one.
IncrementAt(bits, last) ==
    IF last = 0 THEN << 1 >> \o [i \in 1..Len(bits) |-> 0]
    ELSE [i \in 1..Len(bits) |->
             IF i < last THEN bits[i] ELSE IF i = last THEN 1 ELSE 0]

BitsIncrement(bits) == IncrementAt(bits, Len(bits) - TrailingOnes(bits, Len(bits)))

\* Round the number bits * 2^e (leading bit 1; sticky tells of nonzero bits
\* already lost below it) to DoubleMantissaBits bits, ties to even.
RoundToDouble(bits, e, sticky) ==
    IF Len(bits) <= DoubleMantissaBits
    THEN [m |-> bits \o [k \in 1..(DoubleMantissaBits - Len(bits)) |-> 0],
          e |-> e - (DoubleMantissaBits - Len(bits))]
    ELSE LET kept    == SubSeq(bits, 1, DoubleMantissaBits)
             dropped == SubSeq(bits, DoubleMantissaBits + 1, Len(bits))
             rest    == sticky \/ (\E k \in 2..Len(dropped) : dropped[k] = 1)
             up      == dropped[1] = 1 /\ (rest \/ kept[DoubleMantissaBits] = 1)
             e1      == e + Len(dropped)
             inc     == BitsIncrement(kept)
         IN  IF ~up THEN [m |-> kept, e |-> e1]
             ELSE IF Len(inc) = DoubleMantissaBits THEN [m |-> inc, e |-> e1]
             ELSE [m |-> SubSeq(inc, 1, DoubleMantissaBits), e |-> e1 + 1]

\* The exponent k with b * 2^k <= a < b * 2^(k+1), for a > 0 and b > 0.
RECURSIVE QuotientExponent(_, _)
QuotientExponent(a, b) ==
    IF a >= 2 * b THEN QuotientExponent(a, 2 * b) + 1
    ELSE IF a < b THEN QuotientExponent(2 * a, b) - 1
    ELSE 0

\* n limbs of the fraction r / b (0 <= r < b), followed by the remainder
\* after them.
RECURSIVE QuotientLimbs(_, _, _)
QuotientLimbs(r, b, n) ==
    IF n = 0 THEN << r >>
    ELSE << (r * 512) \div b >> \o QuotientLimbs((r * 512) % b, b, n - 1)

QuotientOf(k, q) ==
    RoundToDouble(<< 1 >> \o LimbsToBits(SubSeq(q, 1, 6)), k - 54, q[7] # 0)

\* static_cast<double>(a) / static_cast<double>(b), for integers a >= 0, b > 0.
DoubleDiv(a, b) ==
    IF a = 0 THEN DoubleZero
    ELSE LET k == QuotientExponent(a, b)
         IN  QuotientOf(k, QuotientLimbs((IF k < 0 THEN a * Pow2(-k) ELSE a)
                                           - (IF k > 0 THEN b * Pow2(k) ELSE b),
                                         IF k > 0 THEN b * Pow2(k) ELSE b, 6))

\* limbs * c + carry, as a limb sequence with the last carry as its head.
RECURSIVE LimbsTimes(_, _, _)
LimbsTimes(limbs, c, carry) ==
    IF limbs = << >> THEN << carry >>
    ELSE LET t == limbs[Len(limbs)] * c + carry
         IN  Append(LimbsTimes(SubSeq(limbs, 1, Len(limbs) - 1), c, t \div 512),
                    t % 512)

\* x * static_cast<double>(c), for a double x >= 0 and an integer c >= 0.
DoubleTimes(x, c) ==
    IF x.m = << >> \/ c = 0 THEN DoubleZero
    ELSE LET p == LimbsTimes(BitsToLimbs(<< 0 >> \o x.m), c, 0)
             product == NatToBits(p[1]) \o LimbsToBits(Tail(p))
         IN  RoundToDouble(StripLeadingZeros(product), x.e, FALSE)

\* static_cast<int64_t>(x): truncation toward zero, for 0 <= x < 2^30.
DoubleToInt(x) ==
    IF x.m = << >> THEN 0
    ELSE IF x.e >= 0 THEN BitsToNat(x.m, Len(x.m)) * Pow2(x.e)
    ELSE IF -x.e >= Len(x.m) THEN 0
    ELSE BitsToNat(x.m, Len(x.m) + x.e)

\* Lines 116-117 and 121, without the product of line 118.
AttributedLoadUnscaled(old_size, total, total_bytes_loaded) ==
    DoubleToInt(DoubleDiv(old_size, total))

\* cache_balancer.cc:116-118 and the conversion of line 121.
AttributedLoad(old_size, total, total_bytes_loaded) ==
    DoubleToInt(DoubleTimes(DoubleDiv(old_size, total), total_bytes_loaded))

(***************************************************************************)
(* Bounds of the model.                                                    *)
(***************************************************************************)
NumThreads == 2          \* get_num_threads()
NumEvicters == 2         \* evicter objects that exist (addresses 1..NumEvicters)
MaxQueue == 1            \* values waiting in pool_queue
MaxAccessCount == 1      \* notify_access calls counted per thread
MaxRings == 2            \* timer rings
MaxLoad == 2             \* largest get_bytes_loaded() answer
MaxBudget == 3           \* largest total_cache_size

Threads == 0..(NumThreads - 1)
Evicters == 1..NumEvicters

\* The thread an evicter lives on (evicter->assert_thread(), get_thread_id()).
HomeThread(e) == e % NumThreads

\* current_microtime() when the balancer is constructed.
StartTime == 1000000

\* Delays between two rings of rebalance_timer: the nominal interval, or a
\* ring that comes late by a whole timeout.
RingDelays == {rebalance_check_interval_ms * 1000, rebalance_timeout_ms * 1000}

\* Answers of the evicter's accessors, which belong to evicter_t.
BudgetInputs == {0, MaxBudget}
LimitInputs == {0, MaxBudget}
LoadInputs == {0, MaxLoad}
FootprintInputs == {0, MaxBudget}

VARIABLES
    total_cache_size,     \* the budget, fixed at construction
    last_rebalance_time,  \* microtime of the last enqueue
    read_ahead_ok,
    access_count,         \* thread_info[i].access_count
    evicters,             \* thread_info[i].evicters
    mutex,                \* thread_info[i].mutex: who holds it
    pool_queue,           \* number of values waiting in pool_queue
    active_worker_count,  \* coroutines of rebalance_pool running the callback
    pc,                   \* where coro_pool_callback stands
    snapshot_index,       \* i of the snapshot loop (line 93)
    per_thread_data,      \* the records of this pass
    cache_in_use,
    total_evicters,
    total_bytes_loaded,
    extra_bytes,
    apply_pending,        \* threads whose apply_rebalance_to_thread has not run
    memory_limit,         \* evicter_t's memory limit
    clock,                \* current_microtime() at the last ring
    rings,                \* rings of rebalance_timer so far
    reg_call,             \* add_evicter/remove_evicter holding the mutex of a thread
    crashed,              \* the call whose guarantee() failed
    limit_updates,        \* evicters whose update_memory_limit this pass called
    footprints,           \* what in_memory_size() answered for each of them
    erased                \* evicters erased after this pass snapshotted them

vars == << total_cache_size, last_rebalance_time, read_ahead_ok, access_count,
           evicters, mutex, pool_queue, active_worker_count, pc, snapshot_index,
           per_thread_data, cache_in_use, total_evicters, total_bytes_loaded,
           extra_bytes, apply_pending, memory_limit, clock, rings, reg_call,
           crashed, limit_updates, footprints, erased >>

\* What coro_pool_callback keeps on its stack.
pass_vars == << pc, snapshot_index, per_thread_data, cache_in_use, total_evicters,
                total_bytes_loaded, extra_bytes, apply_pending, limit_updates,
                footprints, erased >>

NoCall == [op |-> "none", evicter |-> 0]

\* No guarantee() has failed: the process is alive.
Running == crashed = NoCall

(***************************************************************************)
(* Helpers on sets and sequences.                                          *)
(***************************************************************************)
Min(S) == CHOOSE m \in S : \A n \in S : m <= n

\* Iteration order of std::set<evicter_t *>: ascending addresses.
RECURSIVE SetInOrder(_)
SetInOrder(S) ==
    IF S = {} THEN << >> ELSE << Min(S) >> \o SetInOrder(S \ {Min(S)})

RECURSIVE SumSeq(_)
SumSeq(q) == IF q = << >> THEN 0 ELSE q[1] + SumSeq(Tail(q))

\* All records of a pass, thread by thread (the order of both double loops).
RECURSIVE Flatten(_, _)
Flatten(ptd, i) ==
    IF i = NumThreads THEN << >> ELSE ptd[i] \o Flatten(ptd, i + 1)

AllRecords(ptd) == Flatten(ptd, 0)

\* The inverse of AllRecords, given the shape of ptd.
Regroup(ptd, recs) ==
    [i \in Threads |->
        LET before == Len(Flatten([t \in Threads |-> IF t < i THEN ptd[t] ELSE << >>], 0))
        IN  SubSeq(recs, before + 1, before + Len(ptd[i]))]

SumNewSizes(recs) == SumSeq([k \in 1..Len(recs) |-> recs[k].new_size])
SumOldSizes(recs) == SumSeq([k \in 1..Len(recs) |-> recs[k].old_size])
SumBytesLoaded(recs) == SumSeq([k \in 1..Len(recs) |-> recs[k].bytes_loaded])

Abs(n) == IF n < 0 THEN -n ELSE n

(***************************************************************************)
(* Size calculation (coro_pool_callback, lines 109-151).                   *)
(***************************************************************************)
\* cache_data_t's constructor (lines 16-20).
CacheData(e, limit, loaded) ==
    [evicter |-> e, new_size |-> 0, old_size |-> limit, bytes_loaded |-> loaded]

\* Lines 116-123, without line 122.
RawNewSizeWithoutOld(data, total, loaded) ==
    LET new_size == data.bytes_loaded
                    - AttributedLoad(data.old_size, total, loaded)
    IN  IF new_size > 0 THEN new_size ELSE 0

\* Lines 116-123: the size of one record before the rounding error is spread.
RawNewSize(data, total, loaded) ==
    LET new_size == data.bytes_loaded
                    - AttributedLoad(data.old_size, total, loaded)
                    + data.old_size
    IN  IF new_size > 0 THEN new_size ELSE 0

\* Lines 112-128.
CalculateNewSizes(recs, total, loaded) ==
    [k \in 1..Len(recs) |->
        [recs[k] EXCEPT !.new_size = RawNewSize(recs[k], total, loaded)]]

\* int64_t division truncates toward zero.
TruncDiv(a, b) == IF a >= 0 THEN a \div b ELSE -((-a) \div b)

\* Line 133, without lines 134-136.
DeltaWithoutUnit(extra, n) == TruncDiv(extra, n)

\* Lines 133-136.
Delta(extra, n) ==
    LET delta == TruncDiv(extra, n)
    IN  IF delta = 0 THEN (IF extra < 0 THEN -1 ELSE 1) ELSE delta

\* Line 142, "Avoid underflow".
FitsDeltaUnchecked(new_size, delta) == TRUE

FitsDelta(new_size, delta) == new_size + delta >= 0

\* Lines 137-150: one walk over the records k.. of the while loop's body.
RECURSIVE WalkFrom(_, _, _, _)
WalkFrom(recs, k, extra, delta) ==
    IF k > Len(recs) \/ extra = 0 THEN [recs |-> recs, extra_bytes |-> extra]
    ELSE IF FitsDelta(recs[k].new_size, delta)
    THEN WalkFrom([recs EXCEPT ![k].new_size = @ + delta], k + 1, extra - delta, delta)
    ELSE WalkFrom([recs EXCEPT ![k].new_size = 0], k + 1,
                  extra + recs[k].new_size, delta)

Walk(recs, extra, n) == WalkFrom(recs, 1, extra, Delta(extra, n))

(***************************************************************************)
(* Construction (lines 22-28).                                             *)
(***************************************************************************)
IdlePass ==
    /\ pc = "idle"
    /\ snapshot_index = 0
    /\ per_thread_data = [t \in Threads |-> << >>]
    /\ cache_in_use = [t \in Threads |-> 0]
    /\ total_evicters = 0
    /\ total_bytes_loaded = 0
    /\ extra_bytes = 0
    /\ apply_pending = {}
    /\ limit_updates = {}
    /\ footprints = [e \in Evicters |-> 0]
    /\ erased = {}

Init ==
    /\ total_cache_size = MaxBudget
    /\ last_rebalance_time = 0
    /\ read_ahead_ok = TRUE
    /\ access_count = [t \in Threads |-> 0]
    /\ evicters = [t \in Threads |-> {}]
    /\ mutex = [t \in Threads |-> "free"]
    /\ pool_queue = 0
    /\ active_worker_count = 0
    /\ IdlePass
    /\ memory_limit \in [Evicters -> LimitInputs]
    /\ clock = StartTime
    /\ rings = 0
    /\ reg_call = [t \in Threads |-> NoCall]
    /\ crashed = NoCall

(***************************************************************************)
(* Registration (lines 34-48).  The call acquires the mutex of its thread, *)
(* then inserts or erases and checks the guarantee, with no suspension in  *)
(* between; the mutex is released when the call returns.                   *)
(***************************************************************************)
\* Lines 35-38 without the mutex_acq of lines 37 and 45: the call goes on
\* to its insert or erase whoever holds the mutex.
BeginCallWithoutMutex(op, e) ==
    LET t == HomeThread(e)
    IN  /\ Running
        /\ reg_call[t] = NoCall
        /\ reg_call' = [reg_call EXCEPT ![t] = [op |-> op, evicter |-> e]]
        /\ UNCHANGED << total_cache_size, last_rebalance_time, read_ahead_ok,
                        access_count, evicters, mutex, pool_queue, active_worker_count,
                        pass_vars, memory_limit, clock, rings, crashed >>

BeginCall(op, e) ==
    LET t == HomeThread(e)
    IN  /\ Running
        /\ reg_call[t] = NoCall
        /\ mutex[t] = "free"
        /\ mutex' = [mutex EXCEPT ![t] = "registration"]
        /\ reg_call' = [reg_call EXCEPT ![t] = [op |-> op, evicter |-> e]]
        /\ UNCHANGED << total_cache_size, last_rebalance_time, read_ahead_ok,
                        access_count, evicters, pool_queue, active_worker_count,
                        pass_vars, memory_limit, clock, rings, crashed >>

\* guarantee(res.second) of line 39, left out.
GuaranteeInsertedUnchecked(set, e) == TRUE

\* guarantee(res.second) of line 39: the insertion took place.
GuaranteeInserted(set, e) == e \notin set

\* guarantee(res == 1) of line 47, left out.
GuaranteeErasedUnchecked(set, e) == TRUE

\* guarantee(res == 1) of line 47: one element was erased.
GuaranteeErased(set, e) == e \in set

\* The evicters of the records that the running pass holds for thread t.
Snapshotted(t) ==
    {per_thread_data[t][k].evicter : k \in 1..Len(per_thread_data[t])}

\* A failed guarantee aborts the process inside the call.  An erase of line
\* 46 that takes out an evicter the running pass has a record of is noted
\* in erased.
EndCall(t, new_set, ok) ==
    /\ Running
    /\ evicters' = [evicters EXCEPT ![t] = new_set]
    /\ erased' = erased \cup ((evicters[t] \ new_set) \cap Snapshotted(t))
    /\ IF ok
       THEN /\ mutex' = [mutex EXCEPT ![t] = "free"]
            /\ reg_call' = [reg_call EXCEPT ![t] = NoCall]
            /\ UNCHANGED crashed
       ELSE /\ crashed' = reg_call[t]
            /\ UNCHANGED << mutex, reg_call >>
    /\ UNCHANGED << total_cache_size, last_rebalance_time, read_ahead_ok,
                    access_count, pool_queue, active_worker_count, pc,
                    snapshot_index, per_thread_data, cache_in_use, total_evicters,
                    total_bytes_loaded, extra_bytes, apply_pending, limit_updates,
                    footprints, memory_limit, clock, rings >>

CallAddEvicter(e) == BeginCall("add", e)

AddEvicter(e) ==
    LET t == HomeThread(e)
    IN  /\ reg_call[t] = [op |-> "add", evicter |-> e]
        /\ EndCall(t, evicters[t] \cup {e}, GuaranteeInserted(evicters[t], e))

CallRemoveEvicter(e) == BeginCall("remove", e)

RemoveEvicter(e) ==
    LET t == HomeThread(e)
    IN  /\ reg_call[t] = [op |-> "remove", evicter |-> e]
        /\ EndCall(t, evicters[t] \ {e}, GuaranteeErased(evicters[t], e))

(***************************************************************************)
(* notify_access (lines 50-52): an atomic increment.  The counter is       *)
(* followed for MaxAccessCount calls above each value of AccessInputs.     *)
(***************************************************************************)
AccessInputs == {0, rebalance_access_count_threshold - 1}

NotifyAccess(t) ==
    /\ Running
    /\ \E base \in AccessInputs :
           base <= access_count[t] /\ access_count[t] < base + MaxAccessCount
    /\ access_count' = [access_count EXCEPT ![t] = @ + 1]
    /\ UNCHANGED << total_cache_size, last_rebalance_time, read_ahead_ok, evicters,
                    mutex, pool_queue, active_worker_count, pass_vars, memory_limit,
                    clock, rings, reg_call, crashed >>

(***************************************************************************)
(* on_ring (lines 54-80).                                                  *)
(***************************************************************************)
\* Lines 63-68.
RECURSIVE TotalAccessesFrom(_, _)
TotalAccessesFrom(counts, i) ==
    IF i = NumThreads THEN 0 ELSE counts[i] + TotalAccessesFrom(counts, i + 1)

TotalAccesses(counts) == TotalAccessesFrom(counts, 0)

\* Line 62, with the timeout taken as microseconds without the conversion.
WithinTimeoutNoConversion(last, now) == last + rebalance_timeout_ms > now

\* Line 62, with the boundary on the wrong side.
WithinTimeoutInclusive(last, now) == last + (rebalance_timeout_ms * 1000) >= now

\* Line 62.
WithinTimeout(last, now) == last + (rebalance_timeout_ms * 1000) > now

\* Lines 62-73: the ring returns without a rebalance.
RingReturnsEarly(last, now, counts) ==
    /\ WithinTimeout(last, now)
    /\ TotalAccesses(counts) < rebalance_access_count_threshold

OnRing(delay) ==
    LET now == clock + delay
    IN  /\ Running
        /\ rings < MaxRings
        /\ rings' = rings + 1
        /\ clock' = now
        /\ IF RingReturnsEarly(last_rebalance_time, now, access_count)
           THEN UNCHANGED << last_rebalance_time, pool_queue >>
           ELSE /\ pool_queue < MaxQueue
                /\ last_rebalance_time' = now
                /\ pool_queue' = pool_queue + 1
        /\ UNCHANGED << total_cache_size, read_ahead_ok, access_count, evicters,
                        mutex, active_worker_count, pass_vars, memory_limit,
                        reg_call, crashed >>

(***************************************************************************)
(* rebalance_pool (line 28): a coro_pool_t with max_worker_count workers   *)
(* takes a value from pool_queue and runs coro_pool_callback on it.        *)
(***************************************************************************)
max_worker_count_per_thread == NumThreads

max_worker_count == 1

PoolSpawn ==
    /\ Running
    /\ pool_queue > 0
    /\ active_worker_count < max_worker_count
    /\ pool_queue' = pool_queue - 1
    /\ active_worker_count' = active_worker_count + 1
    /\ pc' = "snapshot"
    /\ snapshot_index' = 0
    /\ per_thread_data' = [t \in Threads |-> << >>]
    /\ cache_in_use' = [t \in Threads |-> 0]
    /\ total_evicters' = 0
    /\ total_bytes_loaded' = 0
    /\ extra_bytes' = 0
    /\ apply_pending' = {}
    /\ limit_updates' = {}
    /\ footprints' = [e \in Evicters |-> 0]
    /\ erased' = {}
    /\ UNCHANGED << total_cache_size, last_rebalance_time, read_ahead_ok,
                    access_count, evicters, mutex, memory_limit, clock, rings,
                    reg_call, crashed >>

\* The callback returns (line 170) and its worker ends.
EndPass ==
    /\ pc' = "idle"
    /\ snapshot_index' = 0
    /\ per_thread_data' = [t \in Threads |-> << >>]
    /\ cache_in_use' = [t \in Threads |-> 0]
    /\ total_evicters' = 0
    /\ total_bytes_loaded' = 0
    /\ extra_bytes' = 0
    /\ apply_pending' = {}
    /\ limit_updates' = {}
    /\ footprints' = [e \in Evicters |-> 0]
    /\ erased' = {}
    /\ active_worker_count' = active_worker_count - 1

(***************************************************************************)
(* coro_pool_callback: the snapshot (lines 93-106).                        *)
(***************************************************************************)
\* Line 96: the acquisition waits until the mutex is free.
SnapshotAcquire ==
    /\ Running
    /\ pc = "snapshot"
    /\ mutex[snapshot_index] = "free"
    /\ mutex' = [mutex EXCEPT ![snapshot_index] = "balancer"]
    /\ UNCHANGED << total_cache_size, last_rebalance_time, read_ahead_ok,
                    access_count, evicters, pool_queue, active_worker_count,
                    pass_vars, memory_limit, clock, rings, reg_call, crashed >>

\* Lines 98-106, with get_bytes_loaded() answering loaded[e] for evicter e.
SnapshotThread(loaded) ==
    LET i     == snapshot_index
        order == SetInOrder(evicters[i])
        data  == [k \in 1..Len(order) |->
                     CacheData(order[k], memory_limit[order[k]], loaded[order[k]])]
    IN  /\ Running
        /\ pc = "snapshot"
        /\ mutex[i] = "balancer"
        /\ per_thread_data' = [per_thread_data EXCEPT ![i] = data]
        /\ total_evicters' = total_evicters + Cardinality(evicters[i])
        /\ total_bytes_loaded' = total_bytes_loaded + SumBytesLoaded(data)
        /\ mutex' = [mutex EXCEPT ![i] = "free"]
        /\ snapshot_index' = IF i + 1 < NumThreads THEN i + 1 ELSE 0
        /\ pc' = IF i + 1 < NumThreads THEN "snapshot" ELSE "calculate"
        /\ UNCHANGED << total_cache_size, last_rebalance_time, read_ahead_ok,
                        access_count, evicters, pool_queue, active_worker_count,
                        cache_in_use, extra_bytes, apply_pending, limit_updates,
                        footprints, erased, memory_limit, clock, rings, reg_call,
                        crashed >>

Snapshot ==
    \E loaded \in [evicters[snapshot_index] -> LoadInputs] : SnapshotThread(loaded)

(***************************************************************************)
(* coro_pool_callback: the new sizes (lines 108-151).                      *)
(***************************************************************************)
\* Line 109, without the test of total_evicters.
ShouldRebalanceAnyCount(total, n) == total > 0

\* Line 109.
ShouldRebalance(total, n) == total > 0 /\ n > 0

\* Lines 109-131, or the return of a pass that has nothing to balance.  When
\* no rounding error is left, pmap (line 154) starts the apply on every thread.
Calculate ==
    /\ Running
    /\ pc = "calculate"
    /\ IF ShouldRebalance(total_cache_size, total_evicters)
       THEN LET recs == CalculateNewSizes(AllRecords(per_thread_data),
                                          total_cache_size, total_bytes_loaded)
                extra == total_cache_size - SumNewSizes(recs)
            IN  /\ per_thread_data' = Regroup(per_thread_data, recs)
                /\ extra_bytes' = extra
                /\ pc' = IF extra = 0 THEN "apply" ELSE "distribute"
                /\ apply_pending' = IF extra = 0 THEN Threads ELSE {}
                /\ UNCHANGED << snapshot_index, cache_in_use, total_evicters,
                                total_bytes_loaded, limit_updates, footprints,
                                erased, active_worker_count >>
       ELSE EndPass
    /\ UNCHANGED << total_cache_size, last_rebalance_time, read_ahead_ok,
                    access_count, evicters, mutex, pool_queue, memory_limit, clock,
                    rings, reg_call, crashed >>

\* One iteration of the while loop of lines 132-151; after the last one pmap
\* (line 154) starts the apply on every thread.
DistributeWalk ==
    /\ Running
    /\ pc = "distribute"
    /\ extra_bytes # 0
    /\ LET w == Walk(AllRecords(per_thread_data), extra_bytes, total_evicters)
       IN  /\ per_thread_data' = Regroup(per_thread_data, w.recs)
           /\ extra_bytes' = w.extra_bytes
           /\ pc' = IF w.extra_bytes = 0 THEN "apply" ELSE "distribute"
           /\ apply_pending' = IF w.extra_bytes = 0 THEN Threads ELSE {}
    /\ UNCHANGED << total_cache_size, last_rebalance_time, read_ahead_ok,
                    access_count, evicters, mutex, pool_queue, active_worker_count,
                    snapshot_index, cache_in_use, total_evicters, total_bytes_loaded,
                    limit_updates, footprints, erased, memory_limit, clock, rings,
                    reg_call, crashed >>

(***************************************************************************)
(* apply_rebalance_to_thread (lines 172-198), run on thread index.         *)
(***************************************************************************)
\* Line 188, without the check.
StillRegisteredUnchecked(set, e) == TRUE

\* Line 188: the evicter still exists.
StillRegistered(set, e) == e \in set

\* Line 189, with the size the evicter had.
AppliedLimitOld(data) == data.old_size

\* Line 189: the argument of update_memory_limit.
AppliedLimit(data) == data.new_size

\* Line 197, left out.
AccessCountKept(count) == count

\* Line 197: "Clear the number of accesses for this thread".
ClearedAccessCount(count) == 0

\* Lines 183-197, with in_memory_size() answering footprint[e] for evicter e.
\* A registration call on this thread never suspends while it holds the
\* mutex, so none is in its critical section when this body runs.
ApplyToThread(index, footprint) ==
    LET sizes   == per_thread_data[index]
        present == {k \in 1..Len(sizes) :
                       StillRegistered(evicters[index], sizes[k].evicter)}
        updated == {sizes[k].evicter : k \in present}
    IN  /\ Running
        /\ pc = "apply"
        /\ index \in apply_pending
        /\ reg_call[index] = NoCall
        /\ memory_limit' =
               [e \in Evicters |->
                   IF e \in updated
                   THEN AppliedLimit(sizes[CHOOSE k \in present : sizes[k].evicter = e])
                   ELSE memory_limit[e]]
        /\ cache_in_use' = [cache_in_use EXCEPT ![index] =
               SumSeq([k \in 1..Len(sizes) |->
                          IF k \in present THEN footprint[sizes[k].evicter] ELSE 0])]
        /\ access_count' = [access_count EXCEPT ![index] = ClearedAccessCount(@)]
        /\ apply_pending' = apply_pending \ {index}
        /\ limit_updates' = limit_updates \cup updated
        /\ footprints' = [e \in Evicters |->
                              IF e \in updated THEN footprint[e] ELSE footprints[e]]
        /\ UNCHANGED << total_cache_size, last_rebalance_time, read_ahead_ok, evicters,
                        mutex, pool_queue, active_worker_count, pc, snapshot_index,
                        per_thread_data, total_evicters, total_bytes_loaded,
                        extra_bytes, erased, clock, rings, reg_call, crashed >>

ApplyRebalanceToThread(index) ==
    \E footprint \in [{per_thread_data[index][k].evicter :
                          k \in 1..Len(per_thread_data[index])} -> FootprintInputs] :
        ApplyToThread(index, footprint)

(***************************************************************************)
(* coro_pool_callback: the read-ahead latch (lines 158-168).               *)
(***************************************************************************)
\* Line 159, without the test.
LatchOpenAlways(ok) == TRUE

\* Line 159.
LatchOpen(ok) == ok

RECURSIVE CacheUsageFrom(_, _)
CacheUsageFrom(in_use, i) ==
    IF i = NumThreads THEN 0 ELSE in_use[i] + CacheUsageFrom(in_use, i + 1)

\* Lines 161-164.
CacheUsage(in_use) == CacheUsageFrom(in_use, 0)

\* Lines 166-167, with the two ratio constants exchanged.
ReadAheadAllowedSwapped(usage, total) ==
    usage * read_ahead_ratio_numerator < total * read_ahead_ratio_denominator

\* Lines 166-167.
ReadAheadAllowed(usage, total) ==
    usage * read_ahead_ratio_denominator < total * read_ahead_ratio_numerator

UpdateReadAhead ==
    /\ Running
    /\ pc = "apply"
    /\ apply_pending = {}
    /\ read_ahead_ok' = IF LatchOpen(read_ahead_ok)
                        THEN ReadAheadAllowed(CacheUsage(cache_in_use), total_cache_size)
                        ELSE read_ahead_ok
    /\ EndPass
    /\ UNCHANGED << total_cache_size, last_rebalance_time, access_count, evicters,
                    mutex, pool_queue, memory_limit, clock, rings, reg_call, crashed >>

(***************************************************************************)
(* The balancer with its threads.                                          *)
(***************************************************************************)
Next ==
    \/ \E e \in Evicters : CallAddEvicter(e)
    \/ \E e \in Evicters : AddEvicter(e)
    \/ \E e \in Evicters : CallRemoveEvicter(e)
    \/ \E e \in Evicters : RemoveEvicter(e)
    \/ OnRing(rebalance_timeout_ms * 1000)
    \/ PoolSpawn
    \/ SnapshotAcquire
    \/ Snapshot
    \/ Calculate
    \/ DistributeWalk
    \/ \E index \in Threads : ApplyRebalanceToThread(index)
    \/ UpdateReadAhead

Spec == Init /\ [][Next]_vars

(***************************************************************************)
(* The trigger policy with cache accesses: the balancer is followed from a *)
(* state with the evicters of Registered in place and access counters at   *)
(* values of AccessInputs; no evicter is added or removed.                 *)
(***************************************************************************)
InitAccess ==
    /\ total_cache_size \in BudgetInputs
    /\ last_rebalance_time = 0
    /\ read_ahead_ok = TRUE
    /\ access_count \in [Threads -> AccessInputs]
    /\ \E registered \in {{}, Evicters} :
           evicters = [t \in Threads |-> {e \in registered : HomeThread(e) = t}]
    /\ mutex = [t \in Threads |-> "free"]
    /\ pool_queue = 0
    /\ active_worker_count = 0
    /\ IdlePass
    /\ memory_limit = [e \in Evicters |-> MaxBudget]
    /\ clock = StartTime
    /\ rings = 0
    /\ reg_call = [t \in Threads |-> NoCall]
    /\ crashed = NoCall

NextAccess ==
    \/ \E t \in Threads : NotifyAccess(t)
    \/ \E delay \in RingDelays : OnRing(delay)
    \/ PoolSpawn
    \/ SnapshotAcquire
    \/ Snapshot
    \/ Calculate
    \/ DistributeWalk
    \/ \E index \in Threads : ApplyRebalanceToThread(index)
    \/ UpdateReadAhead

SpecAccess == InitAccess /\ [][NextAccess]_vars

(***************************************************************************)
(* The size calculation alone: a pass that has just taken its snapshot of  *)
(* the evicters of present, with limits old and loads loaded.              *)
(***************************************************************************)
SnapshotOf(present, old, loaded) ==
    [t \in Threads |->
        LET order == SetInOrder({e \in present : HomeThread(e) = t})
        IN  [k \in 1..Len(order) |-> CacheData(order[k], old[order[k]], loaded[order[k]])]]

\* Every snapshot with small limits and loads.
GridInputs ==
    UNION {{[total |-> total, present |-> present, old |-> old, loaded |-> loaded] :
               total \in 1..MaxBudget, old \in [present -> 0..MaxBudget],
               loaded \in [present -> 0..MaxLoad]} : present \in SUBSET Evicters}

\* Snapshots of two evicters with sizes as a server has them: a budget
\* shared 600/400 with loads 300/100, the same with nothing loaded, a budget
\* shared evenly with loads 300/100, and a quotient that has no exact
\* double (15/22).
ScenarioInputs ==
    {[total |-> 1000, present |-> {1, 2}, old |-> << 500, 500 >>, loaded |-> << 300, 100 >>],
     [total |-> 1000, present |-> {1, 2}, old |-> << 600, 400 >>, loaded |-> << 300, 100 >>],
     [total |-> 1000, present |-> {1, 2}, old |-> << 600, 400 >>, loaded |-> << 0, 0 >>],
     [total |-> 1000, present |-> {1, 2}, old |-> << 900, 800 >>, loaded |-> << 1, 500 >>],
     [total |-> 22, present |-> {1, 2}, old |-> << 15, 7 >>, loaded |-> << 22, 0 >>]}

CalcInputs == GridInputs \cup ScenarioInputs

InitCalc ==
    /\ \E input \in CalcInputs :
           /\ total_cache_size = input.total
           /\ per_thread_data = SnapshotOf(input.present, input.old, input.loaded)
           /\ total_evicters = Cardinality(input.present)
           /\ total_bytes_loaded =
                  SumSeq([k \in 1..Len(SetInOrder(input.present)) |->
                             input.loaded[SetInOrder(input.present)[k]]])
           /\ memory_limit = [e \in Evicters |->
                                 IF e \in input.present THEN input.old[e] ELSE 0]
           /\ evicters = [t \in Threads |-> {e \in input.present : HomeThread(e) = t}]
    /\ last_rebalance_time = StartTime
    /\ read_ahead_ok = TRUE
    /\ access_count = [t \in Threads |-> 0]
    /\ mutex = [t \in Threads |-> "free"]
    /\ pool_queue = 0
    /\ active_worker_count = 1
    /\ pc = "calculate"
    /\ snapshot_index = 0
    /\ cache_in_use = [t \in Threads |-> 0]
    /\ extra_bytes = 0
    /\ apply_pending = {}
    /\ limit_updates = {}
    /\ footprints = [e \in Evicters |-> 0]
    /\ erased = {}
    /\ clock = StartTime
    /\ rings = 0
    /\ reg_call = [t \in Threads |-> NoCall]
    /\ crashed = NoCall

NextCalc ==
    \/ Calculate
    \/ DistributeWalk

SpecCalc == InitCalc /\ [][NextCalc]_vars

\* The while loop of lines 132-151 waits for nothing: the coroutine takes
\* its next walk whenever one is left.
SpecCalcLive == SpecCalc /\ WF_vars(DistributeWalk)

(***************************************************************************)
(* The balancer under fair scheduling, followed over one ring of the timer *)
(* with evicters that start with a limit of 0.  rebalance_pool starts a    *)
(* worker when a value waits and no worker runs; the cross-thread mutex    *)
(* serves its waiters in order, so the coordinator gets it although        *)
(* registrations keep taking it; every thread runs the coroutines it has   *)
(* (the apply of a pass, a registration call that holds the mutex).        *)
(***************************************************************************)
InitLive ==
    /\ Init
    /\ memory_limit = [e \in Evicters |-> 0]

\* The one ring that is followed.
OneRing == rings = 0 /\ OnRing(rebalance_timeout_ms * 1000)

NextLive ==
    \/ \E e \in Evicters : CallAddEvicter(e)
    \/ \E e \in Evicters : AddEvicter(e)
    \/ \E e \in Evicters : CallRemoveEvicter(e)
    \/ \E e \in Evicters : RemoveEvicter(e)
    \/ OneRing
    \/ PoolSpawn
    \/ SnapshotAcquire
    \/ Snapshot
    \/ Calculate
    \/ DistributeWalk
    \/ \E index \in Threads : ApplyRebalanceToThread(index)
    \/ UpdateReadAhead

Fairness ==
    /\ WF_vars(PoolSpawn)
    /\ SF_vars(SnapshotAcquire)
    /\ WF_vars(Snapshot)
    /\ WF_vars(Calculate)
    /\ WF_vars(DistributeWalk)
    /\ \A index \in Threads : SF_vars(ApplyRebalanceToThread(index))
    /\ WF_vars(UpdateReadAhead)
    /\ \A e \in Evicters : WF_vars(AddEvicter(e)) /\ WF_vars(RemoveEvicter(e))

SpecLive == InitLive /\ [][NextLive]_vars /\ Fairness

(***************************************************************************)
(* Properties.                                                             *)
(***************************************************************************)
Records == AllRecords(per_thread_data)

\* The pass has run apply_rebalance_to_thread on every thread (lines 154-156).
PassApplied == pc = "apply" /\ apply_pending = {}

RECURSIVE SumLimits(_, _)
SumLimits(limits, S) ==
    IF S = {} THEN 0 ELSE limits[Min(S)] + SumLimits(limits, S \ {Min(S)})

Registered == UNION {evicters[t] : t \in Threads}

\* C1: when the remainder-distribution loop has finished (the pass is at
\* its apply step), the new_size of all records of all threads sum to
\* total_cache_size exactly and no new_size is negative.
C1_Conservation ==
    pc = "apply" =>
        /\ SumNewSizes(Records) = total_cache_size
        /\ \A k \in 1..Len(Records) : Records[k].new_size >= 0

\* The loop has finished on a snapshot that asked for more than the budget
\* and loaded bytes, and has left one evicter that had a size with none.
C1_Witness ==
    /\ pc = "apply"
    /\ total_evicters >= 2
    /\ total_bytes_loaded > 0
    /\ SumOldSizes(Records) > total_cache_size
    /\ \E k \in 1..Len(Records) : Records[k].old_size > 0 /\ Records[k].new_size = 0

\* C2: at most one rebalance pass executes at any instant: a worker of
\* rebalance_pool starts coro_pool_callback only when no pass is running,
\* hence after the previous pass has applied (and reset access_count) on
\* every thread, however many requests wait in pool_queue.
C2_SingleFlight ==
    /\ [](active_worker_count <= 1)
    /\ [][active_worker_count' > active_worker_count =>
             /\ pc = "idle"
             /\ apply_pending = {}
             /\ active_worker_count = 0
             /\ pc' = "snapshot"]_vars

\* A request waits in pool_queue while a pass is between the applies of two
\* threads.
C2_Witness ==
    /\ pc = "apply"
    /\ apply_pending # {}
    /\ apply_pending # Threads
    /\ pool_queue > 0
    /\ active_worker_count = 1

\* C3: read_ahead_ok starts true, and once it is false it is false in every
\* later state.
C3_ReadAheadLatch ==
    /\ read_ahead_ok = TRUE
    /\ [][read_ahead_ok = FALSE => read_ahead_ok' = FALSE]_vars

\* A later pass has applied on every thread and sees a cache usage below
\* 9/10 of the budget while read_ahead_ok is false.
C3_Witness ==
    /\ ~read_ahead_ok
    /\ PassApplied
    /\ limit_updates # {}
    /\ ReadAheadAllowed(CacheUsage(cache_in_use), total_cache_size)

\* C4: a ring of the timer less than rebalance_timeout_ms after
\* last_rebalance_time, with fewer than rebalance_access_count_threshold
\* accesses summed over the threads, enqueues nothing and leaves
\* last_rebalance_time, the access counters, the registries and the limits
\* of the evicters as they are.
C4_QuietRing ==
    [][(/\ rings' = rings + 1
        /\ clock' - last_rebalance_time < rebalance_timeout_ms * 1000
        /\ TotalAccesses(access_count) < rebalance_access_count_threshold)
       => UNCHANGED << pool_queue, last_rebalance_time, access_count, evicters,
                       memory_limit >>]_vars

\* The second ring came one check interval after the ring that enqueued,
\* with 99 accesses counted, and last_rebalance_time is still that of the
\* first ring.
C4_Witness ==
    /\ rings = 2
    /\ clock - last_rebalance_time = rebalance_check_interval_ms * 1000
    /\ TotalAccesses(access_count) = rebalance_access_count_threshold - 1

\* C5: a ring of the timer at least rebalance_timeout_ms after
\* last_rebalance_time, or with at least rebalance_access_count_threshold
\* accesses summed over the threads, sets last_rebalance_time to the time of
\* the ring and enqueues exactly one request, whether or not a pass runs.
C5_ForcedRing ==
    [][(/\ rings' = rings + 1
        /\ \/ clock' - last_rebalance_time >= rebalance_timeout_ms * 1000
           \/ TotalAccesses(access_count) >= rebalance_access_count_threshold)
       => /\ last_rebalance_time' = clock'
          /\ pool_queue' = pool_queue + 1]_vars

\* The second ring came one check interval after the first, found the
\* access threshold reached while a pass was running, and enqueued.
C5_Witness ==
    /\ rings = 2
    /\ last_rebalance_time = clock
    /\ clock = StartTime + 2 * rebalance_check_interval_ms * 1000
    /\ TotalAccesses(access_count) >= rebalance_access_count_threshold
    /\ pc # "idle"
    /\ pool_queue = 1

\* No snapshotted evicter loaded bytes and the snapshotted limits sum to
\* the budget.
NoLoadAtBudget ==
    /\ \A k \in 1..Len(Records) : Records[k].bytes_loaded = 0
    /\ SumOldSizes(Records) = total_cache_size

\* C6: if no snapshotted evicter loaded bytes and the old sizes sum to
\* total_cache_size, the pass computes new_size = old_size for every record,
\* and every evicter whose limit it updates has the limit it had at the
\* snapshot.
C6_Idempotent ==
    (pc = "apply" /\ NoLoadAtBudget) =>
        \A k \in 1..Len(Records) :
            /\ Records[k].new_size = Records[k].old_size
            /\ Records[k].evicter \in limit_updates =>
                   memory_limit[Records[k].evicter] = Records[k].old_size

\* Such a pass over two evicters, one holding the whole budget, has applied
\* on every thread and updated both.
C6_Witness ==
    /\ PassApplied
    /\ NoLoadAtBudget
    /\ total_evicters = 2
    /\ Cardinality(limit_updates) = 2

\* C7: when a pass that was not aborted has applied on every thread, the
\* memory limits of all evicters registered at that moment sum to at most
\* total_cache_size.
C7_BudgetKept ==
    PassApplied => SumLimits(memory_limit, Registered) <= total_cache_size

\* C8: add_evicter of an evicter in the registry of its thread, and
\* remove_evicter of one that is not, fail their guarantee and change no
\* registry; otherwise the call returns, having inserted (erased) exactly
\* that evicter in the set of the calling thread, and no other set changes.
C8_Registration ==
    [][\A e \in Evicters :
          LET t == HomeThread(e)
              add == [op |-> "add", evicter |-> e]
              remove == [op |-> "remove", evicter |-> e]
          IN  /\ (/\ reg_call[t] = add
                  /\ crashed = NoCall
                  /\ reg_call'[t] = NoCall \/ crashed' = add)
                 => IF e \in evicters[t]
                    THEN crashed' = add /\ evicters' = evicters
                    ELSE /\ crashed' = NoCall
                         /\ evicters' = [evicters EXCEPT ![t] = @ \cup {e}]
              /\ (/\ reg_call[t] = remove
                  /\ crashed = NoCall
                  /\ reg_call'[t] = NoCall \/ crashed' = remove)
                 => IF e \notin evicters[t]
                    THEN crashed' = remove /\ evicters' = evicters
                    ELSE /\ crashed' = NoCall
                         /\ evicters' = [evicters EXCEPT ![t] = @ \ {e}]]_vars

\* remove_evicter of an evicter that is not registered has failed its
\* guarantee, while the other thread has an evicter registered.
C8_Witness ==
    /\ crashed.op = "remove"
    /\ crashed.evicter \notin Registered
    /\ Registered # {}

\* C9: a pass whose snapshot finds total_cache_size = 0 or no evicter ends
\* at line 109: neither its snapshot nor its end updates a limit, changes a
\* registry, resets an access_count or changes read_ahead_ok.
C9_AbortedPass ==
    [][(/\ \/ pc = "snapshot"
           \/ pc = "calculate" /\ (total_cache_size = 0 \/ total_evicters = 0)
        /\ pc' # pc \/ snapshot_index' # snapshot_index \/ mutex' # mutex)
       => /\ UNCHANGED << memory_limit, evicters, access_count, read_ahead_ok >>
          /\ pc = "calculate" =>
                 pc' = "idle" /\ active_worker_count' = active_worker_count - 1]_vars

\* A pass over two registered evicters and a budget of zero has ended; the
\* access counters still hold the accesses counted before it.
C9_Witness ==
    /\ rings = 1
    /\ pc = "idle"
    /\ pool_queue = 0
    /\ active_worker_count = 0
    /\ total_cache_size = 0
    /\ Registered = Evicters
    /\ TotalAccesses(access_count) >= rebalance_access_count_threshold

\* The evicters of the snapshot of thread i that are in its registry.
Appliable(i) ==
    {per_thread_data[i][k].evicter : k \in 1..Len(per_thread_data[i])}
        \cap evicters[i]

\* C10: the apply step on thread i updates the limit of exactly the evicters
\* that are in the snapshot of thread i and in the registry of thread i at
\* that time, each to the new_size of its record; every other evicter,
\* removed or added since the snapshot, keeps its limit, and no guarantee
\* fails.
C10_ApplyPresentOnly ==
    [][\A i \in Threads :
          (i \in apply_pending /\ i \notin apply_pending')
          => /\ limit_updates' = limit_updates \cup Appliable(i)
             /\ \A e \in Evicters :
                    IF e \in Appliable(i)
                    THEN \E k \in 1..Len(per_thread_data[i]) :
                             /\ per_thread_data[i][k].evicter = e
                             /\ memory_limit'[e] = per_thread_data[i][k].new_size
                    ELSE memory_limit'[e] = memory_limit[e]
             /\ crashed' = NoCall]_vars

\* The pass has applied on a thread whose snapshotted evicter had been
\* removed, so that its limit is not the new_size computed for it, and on a
\* thread that has an evicter registered after the snapshot.
C10_Witness ==
    /\ pc = "apply"
    /\ \E i \in Threads \ apply_pending :
           \E k \in 1..Len(per_thread_data[i]) :
               /\ per_thread_data[i][k].evicter \notin evicters[i]
               /\ per_thread_data[i][k].evicter \notin limit_updates
               /\ per_thread_data[i][k].new_size # memory_limit[per_thread_data[i][k].evicter]
    /\ \E i \in Threads \ apply_pending :
           \E e \in evicters[i] :
               /\ e \notin {per_thread_data[i][k].evicter : k \in 1..Len(per_thread_data[i])}
               /\ e \notin limit_updates

\* C11: when a pass that was not aborted has applied on every thread and
\* read_ahead_ok is true, the latch update sets read_ahead_ok to true exactly
\* when 10 * cache_usage < 9 * total_cache_size, cache_usage being the sum of
\* the in-memory sizes of the evicters whose limit this pass updated; a
\* usage of 920 with a budget of 1000 gives false.
C11_LatchFormula ==
    /\ [][(PassApplied /\ pc' = "idle" /\ read_ahead_ok = TRUE)
          => read_ahead_ok' =
                 (10 * SumLimits(footprints, limit_updates) < 9 * total_cache_size)]_vars
    /\ [](ReadAheadAllowed(920, 1000) = FALSE)

\* A pass that updated two evicters, one using nothing and one using the
\* whole budget, has turned read_ahead_ok off and ended.
C11_Witness ==
    /\ pc = "idle"
    /\ rings = 1
    /\ pool_queue = 0
    /\ ~read_ahead_ok
    /\ Registered = Evicters
    /\ last_rebalance_time = clock

\* C12: the while loop of lines 132-151 terminates, and every walk over the
\* records that does not end with extra_bytes = 0 leaves |extra_bytes|
\* strictly smaller than it was when the walk began.
C12_WalksTerminate ==
    /\ [][(pc = "distribute" /\ pc' = "distribute")
          => Abs(extra_bytes') < Abs(extra_bytes)]_vars
    /\ (pc = "distribute") ~> (pc = "apply")

\* A walk has changed the sizes and has left a remainder for the next walk.
C12_Witness ==
    /\ pc = "distribute"
    /\ extra_bytes # 0
    /\ \E k \in 1..Len(Records) :
           Records[k].new_size #
               RawNewSize(Records[k], total_cache_size, total_bytes_loaded)

\* The step of lines 109-131 in a pass that has something to balance.
SizesCalculated == pc = "calculate" /\ pc' # "calculate" /\ pc' # "idle"

\* max(0, bytes_loaded + old_size - share) for a record of the snapshot.
SizeWithShare(r, share) ==
    IF r.bytes_loaded + r.old_size - share > 0
    THEN r.bytes_loaded + r.old_size - share ELSE 0

\* trunc(old_size * total_bytes_loaded / total_cache_size) in integers, the
\* loads summed over all records of the snapshot.
ExactShare(r) == (r.old_size * SumBytesLoaded(Records)) \div total_cache_size

ShareIsWhole(r) == (r.old_size * SumBytesLoaded(Records)) % total_cache_size = 0

\* The snapshot of the example: budget 1000, A = 600/300 and B = 400/100.
ExampleSnapshot ==
    /\ total_cache_size = 1000
    /\ Len(Records) = 2
    /\ \E k \in 1..2 : Records[k].old_size = 600 /\ Records[k].bytes_loaded = 300
    /\ \E k \in 1..2 : Records[k].old_size = 400 /\ Records[k].bytes_loaded = 100

ExampleSizes(recs) ==
    \A k \in 1..2 : recs[k].new_size = (IF recs[k].old_size = 600 THEN 660 ELSE 340)

\* C13 as stated: before the remainder is distributed every new_size is
\* max(0, bytes_loaded + old_size - trunc(old_size * total_bytes_loaded /
\* total_cache_size)).
C13_ExactFormula ==
    [][SizesCalculated =>
          \A k \in 1..Len(Records) :
              AllRecords(per_thread_data')[k].new_size
                  = SizeWithShare(Records[k], ExactShare(Records[k]))]_vars

\* C13 as amended: before the remainder is distributed every new_size is
\* max(0, bytes_loaded + old_size - share), where share is
\* trunc(old_size * total_bytes_loaded / total_cache_size), or one less than
\* it in some cases where that quotient is a whole number (the double
\* product can fall just below it); total_bytes_loaded is the sum of the
\* loads of all records; the example yields 660 and 340 with no remainder.
C13_DoubleFormula ==
    [][SizesCalculated =>
          /\ total_bytes_loaded = SumBytesLoaded(Records)
          /\ \A k \in 1..Len(Records) :
                 LET new_size == AllRecords(per_thread_data')[k].new_size
                     share == ExactShare(Records[k])
                 IN  \/ new_size = SizeWithShare(Records[k], share)
                     \/ /\ ShareIsWhole(Records[k])
                        /\ share > 0
                        /\ new_size = SizeWithShare(Records[k], share - 1)
          /\ ExampleSnapshot =>
                 ExampleSizes(AllRecords(per_thread_data')) /\ extra_bytes' = 0]_vars

\* The sizes of the snapshot 15/22 and 7/0 with budget 22 have been
\* calculated: the evicter with old_size 15 has 23, one more than
\* 22 + 15 - trunc(15 * 22 / 22), and a remainder of -1 is to be distributed.
C13_Witness ==
    /\ pc = "distribute"
    /\ total_cache_size = 22
    /\ extra_bytes = -1
    /\ \E k \in 1..Len(Records) :
           Records[k].old_size = 15 /\ Records[k].new_size = 23

\* Record a has the old_size of record b and more bytes loaded.
SameSizeMoreLoad(a, b) ==
    a.old_size = b.old_size /\ a.bytes_loaded > b.bytes_loaded

\* C14: of two evicters of a snapshot with equal old_size, the one with more
\* bytes loaded has a final new_size at least as large as the other's,
\* whatever their order.
C14_MoreLoadNotLess ==
    pc = "apply" =>
        \A a, b \in 1..Len(Records) :
            SameSizeMoreLoad(Records[a], Records[b])
                => Records[a].new_size >= Records[b].new_size

\* C15: while the pass asked for by the last enqueue has not completed (its
\* request waits in pool_queue or the pass runs), on_ring enqueues again
\* only when rebalance_timeout_ms have passed since that enqueue.
C15_NoEnqueueStorm ==
    [][(/\ pool_queue' = pool_queue + 1
        /\ pool_queue > 0 \/ pc # "idle")
       => clock' - last_rebalance_time >= rebalance_timeout_ms * 1000]_vars

\* C16: under fair scheduling every request in pool_queue is taken by a
\* pass and every pass that starts completes, unless a guarantee of a
\* registration call aborts the process; the coordinator holds at most one
\* per-thread mutex at a time and none during the apply.
C16_PassesComplete ==
    /\ \A k \in 1..MaxQueue :
           (pool_queue = k) ~> (pool_queue < k \/ crashed # NoCall)
    /\ (pc # "idle") ~> (pc = "idle" \/ crashed # NoCall)
    /\ [](/\ Cardinality({t \in Threads : mutex[t] = "balancer"}) <= 1
          /\ pc \in {"apply", "idle"} => \A t \in Threads : mutex[t] # "balancer")

\* The coordinator holds the mutex of the last thread for its snapshot
\* while the other thread is inside a registration call that holds its own
\* mutex.
C16_Witness ==
    /\ pc = "snapshot"
    /\ snapshot_index = NumThreads - 1
    /\ mutex[snapshot_index] = "balancer"
    /\ \E t \in Threads : mutex[t] = "registration"

\* C17: the access_count of a thread counts the notify_access calls on it
\* since its last apply: the apply on thread i sets the counter of thread i
\* to 0; any other step that changes a counter adds exactly 1 to the counter
\* of one thread and changes nothing else.
C17_AccessCount ==
    [][/\ \A i \in Threads :
              (i \in apply_pending /\ i \notin apply_pending')
                  => access_count' = [access_count EXCEPT ![i] = 0]
       /\ (apply_pending' = apply_pending /\ access_count' # access_count)
              => /\ \E i \in Threads :
                        access_count' = [access_count EXCEPT ![i] = @ + 1]
                 /\ UNCHANGED << total_cache_size, last_rebalance_time, read_ahead_ok,
                                 evicters, mutex, pool_queue, active_worker_count,
                                 pass_vars, memory_limit, clock, rings, reg_call,
                                 crashed >>]_vars

\* A pass has applied on a thread, which has counted one access since,
\* while the other thread, not applied yet, still has its 99 or more.
C17_Witness ==
    /\ pc = "apply"
    /\ \E i \in Threads \ apply_pending : access_count[i] = 1
    /\ \E j \in apply_pending :
           access_count[j] >= rebalance_access_count_threshold - 1

\* C18: the evicter set of thread i is never read while it is modified: the
\* snapshot of thread i and the apply on thread i happen only when no
\* add_evicter or remove_evicter is at work on the set of thread i, the set
\* changes only inside such a call that holds the mutex of thread i, and
\* the coordinator never holds that mutex together with such a call.
C18_NoReadWhileModified ==
    /\ [](\A i \in Threads : mutex[i] = "balancer" => reg_call[i] = NoCall)
    /\ [][\A i \in Threads :
             /\ (pc = "snapshot" /\ snapshot_index = i /\ per_thread_data' # per_thread_data)
                    => reg_call[i] = NoCall /\ mutex[i] = "balancer"
             /\ (i \in apply_pending /\ i \notin apply_pending')
                    => reg_call[i] = NoCall
             /\ evicters'[i] # evicters[i]
                    => reg_call[i] # NoCall /\ mutex[i] = "registration"]_vars

\* The coordinator is about to snapshot a thread whose set a remove_evicter
\* call, holding the mutex, is about to change.
C18_Witness ==
    /\ pc = "snapshot"
    /\ mutex[snapshot_index] = "registration"
    /\ reg_call[snapshot_index].op = "remove"
    /\ reg_call[snapshot_index].evicter \in evicters[snapshot_index]

\* C19: if the old sizes of a snapshot sum to total_cache_size, extra_bytes
\* is not positive when the remainder distribution starts, and a positive
\* extra_bytes arises only when the old sizes sum to less than
\* total_cache_size.
C19_PositiveOnlyBelowBudget ==
    [][SizesCalculated =>
          /\ SumOldSizes(Records) = total_cache_size => extra_bytes' <= 0
          /\ extra_bytes' > 0 => SumOldSizes(Records) < total_cache_size]_vars

\* C20: the apply step on thread i updates the limit of an evicter only if
\* the evicter has stayed in the registry of thread i since the pass
\* snapshotted it: an evicter erased after the snapshot, registered again
\* or not, is not updated and keeps its limit.
C20_ContinuouslyRegistered ==
    [][\A i \in Threads :
          (i \in apply_pending /\ i \notin apply_pending')
          => \A e \in erased \cap Snapshotted(i) :
                 /\ e \notin limit_updates'
                 /\ memory_limit'[e] = memory_limit[e]]_vars

====
